---- MODULE Spec2Model ----
(***************************************************************************)
(* The population-size regression notebook as a state machine.  One run   *)
(* executes the code cells in document order; a cell that raises stops    *)
(* the run (failed = TRUE).  Files on disk, the kernel's variables and    *)
(* the position inside the two loops are the state.                       *)
(*                                                                         *)
(* Numbers: a population-size ratio is an integer count of 10^-7 units    *)
(* before formatting; a line of the parameter file is the text produced   *)
(* by "%f", kept as <<whole part, six fractional digits>>; a label is the *)
(* parsed line in 10^-6 units.  A site position in [0,1) is a numerator   *)
(* over PosDen.                                                            *)
(***************************************************************************)
EXTENDS Integers, Sequences, FiniteSets, TLC

VARIABLES pc, failed, i, drawn, sizesFile, msOut, tbsUsed, simArgs,
          hapArraysIn, positionArrays, X, Y,
          trainIdx, testIdx, X_train, X_test, Y_train, Y_test,
          clf, preds, mse, Xfirst, runs, names, files, madeBy

vars == <<pc, failed, i, drawn, sizesFile, msOut, tbsUsed, simArgs,
          hapArraysIn, positionArrays, X, Y,
          trainIdx, testIdx, X_train, X_test, Y_train, Y_test,
          clf, preds, mse, Xfirst, runs, names, files, madeBy>>

(* ------------------------------ bounds -------------------------------- *)

\* Number of replicates of a run (10000 in the notebook, scaled down).
NRep == 3

\* Discretization resolution (10000 in the notebook, scaled down so that a
\* replicate can have as many segregating sites as there are discrete sites).
totalPhysLen == 4

\* Denominator of the site positions the simulator prints.
PosDen == 8

\* Largest test subset the evaluator cells are checked on by themselves.
MaxTest == 3

(* ------------------------- program constants -------------------------- *)

\* range(10000) of the sampler loop.
SamplerCountOneMore == NRep + 1

SamplerCount == NRep

\* ./ms 20 10000 ...: haploid sample count and replicate count.
numSamples == 20

numSims == NRep

\* ./ms ... -t 100 -r 100 10000 -en 0.5 1 tbs: mutation rate, recombination
\* rate and number of sites (10000 in the notebook, scaled down as
\* totalPhysLen is), event time (in tenths) and subpopulation of the size
\* change.
ThetaArg == 100

RhoArg == 100

RecSites == totalPhysLen

EnTimeTenths == 5

EnSubpop == 1

\* to_genotypes(ploidy=2)
ploidy == 2

\* "%f" prints six digits after the decimal point.
FDigits == 6

\* train_test_split(..., test_size=0.1)
TestSizeNum == 1

TestSizeDen == 10

\* The two files of a run.
SizesName == "random_pop_size.sizes"

MsOutName == "random_pop_size.msOut"

\* The value of a statistic that is not a number.
NaN == <<"nan", 0, 0>>

(* --------------------------- small helpers ---------------------------- *)

Micro == 10 ^ FDigits

Range(s) == {s[k] : k \in DOMAIN s}

(* --------------------------- the sampler ------------------------------ *)

\* A generator seeded to the same draw every time.
RandomOutcomesSeeded == {0}

\* random.random(): a float in [0, 1).  The outcomes kept are 0 and the
\* largest double below 1 (written 10, in tenths).
RandomOutcomes == {0, 10}

\* 10**e for e = r*2-1, r in tenths, in units of 10^-7 (truncated):
\* 10**-1 = 0.1, 10**(1-2^-52) = 9.99999999999999...
\* any other exponent stands for 10**2 = 100, out of the sampler's reach.
TenToThe(eTenths) ==
  CASE eTenths = -10 -> 1000000
    [] eTenths = 10  -> 99999999
    [] OTHER         -> 1000000000

\* The sampler without the "-1" of the exponent: ratios in [1, 100).
PopSizeOfNoShift(r) == TenToThe(r * 2)

\* popSize = 10**(random.random()*2-1)
PopSizeOf(r) == TenToThe(IF r = 10 THEN 10 ELSE r * 2 - 10)

\* "%f" % popSize: round to six decimals (half to even), as text
\* <<whole, fraction>>.
FormatF(v) ==
  LET q == v \div 10
      rem == v % 10
      m == IF rem > 5 \/ (rem = 5 /\ q % 2 = 1) THEN q + 1 ELSE q
  IN <<m \div Micro, m % Micro>>

\* float(line), as np.loadtxt and the simulator read a line: 10^-6 units.
ParseFloat(line) == line[1] * Micro + line[2]

(* ---------------------- the simulator's output ------------------------ *)

\* One replicate block as ms prints it: the segsites line, the positions
\* line and one 0/1 string per haploid sample (none when segsites is 0).
\* Site j sits at ((j-1)/S) ("spread") or every site at 1/PosDen
\* ("clustered": equal positions as four printed decimals allow); the derived
\* allele of site j is carried by sample j alone ("single") or by the first
\* half of the samples ("half").
MsBlock(S, pv, cv) ==
  [segsites  |-> S,
   positions |-> [j \in 1..S |->
                    IF pv = "spread" THEN ((j - 1) * PosDen) \div S ELSE 1],
   samples   |-> IF S = 0 THEN << >>
                 ELSE [a \in 1..numSamples |-> [j \in 1..S |->
                        IF (cv = "single" /\ a = j)
                           \/ (cv = "half" /\ a <= numSamples \div 2)
                        THEN 1 ELSE 0]]]

\* The blocks a replicate can come out as.
MsBlocks ==
  {MsBlock(S, "spread", "single") : S \in {0, 1, 3, totalPhysLen + 1}}
  \cup {MsBlock(3, "clustered", "half")}

\* A block cut short: its last sample line never reached the file.
Truncated(b) ==
  [b EXCEPT !.samples = SubSeq(b.samples, 1, Len(b.samples) - 1)]

\* A block one of whose sample lines holds a character that is no 0 or 1.
Garbled(b) ==
  [b EXCEPT !.samples[1] = [j \in 1..b.segsites |-> 2]]

NoFile == [header |-> FALSE, blocks |-> << >>]

(* -------------------- msTools.msOutToHaplotypeArrayIn ----------------- *)

\* The grammar without the check of the characters of a sample line.
WellFormedAnyChar(b) ==
  /\ Len(b.positions) = b.segsites
  /\ \/ b.segsites = 0 /\ Len(b.samples) = 0
     \/ /\ b.segsites > 0
        /\ Len(b.samples) = numSamples
        /\ \A a \in 1..numSamples : Len(b.samples[a]) = b.segsites

\* A block that follows the grammar: as many positions as declared sites,
\* one line per haploid sample, every line one 0/1 per site.
WellFormed(b) ==
  /\ Len(b.positions) = b.segsites
  /\ \/ b.segsites = 0 /\ Len(b.samples) = 0
     \/ /\ b.segsites > 0
        /\ Len(b.samples) = numSamples
        /\ \A a \in 1..numSamples :
             /\ Len(b.samples[a]) = b.segsites
             /\ \A j \in 1..b.segsites : b.samples[a][j] \in {0, 1}

\* The stream parses: the header is there and every block follows the
\* grammar.  The total length is not compared with the number of sites of
\* a block: the resolution is trusted to be large enough.
ParsesSkipMalformed(file, L) == file.header

Parses(file, L) ==
  /\ file.header
  /\ \A k \in 1..Len(file.blocks) : WellFormed(file.blocks[k])

\* A continuous position numerator mapped to its discrete coordinate.
IntPos(p, L) == (p * L) \div PosDen

\* One block as the array HaplotypeArray takes: one row per site, one
\* column per haploid sample.
HapArrayOf(b) ==
  [j \in 1..b.segsites |-> [a \in 1..Len(b.samples) |-> b.samples[a][j]]]

PositionsOf(b, L) == [j \in 1..b.segsites |-> IntPos(b.positions[j], L)]

(* ------------------- scikit-allel, as the loop calls it --------------- *)

\* allel.HaplotypeArray(h), to_genotypes(ploidy=2), count_alleles() and the
\* statistics raise on an array without sites (no second dimension, no
\* maximum allele, no pos[0]) and on a haplotype count ploidy does not divide.
StatsRaise(h, pos) ==
  \/ Len(h) = 0
  \/ Len(pos) = 0
  \/ \E j \in 1..Len(h) : Len(h[j]) % ploidy # 0

\* The pairing with both alleles of an individual read from its first
\* haplotype.
to_genotypesFirstOfPair(h) ==
  [j \in 1..Len(h) |->
     [k \in 1..(Len(h[j]) \div ploidy) |->
        [p \in 1..ploidy |-> h[j][ploidy * (k - 1) + 1]]]]

\* haps.to_genotypes(ploidy=2): the haplotype axis of length n is reshaped
\* to n / ploidy individuals of ploidy alleles, row-major, so that
\* individual k (from 1) holds haplotypes ploidy*(k-1)+1 .. ploidy*k.
to_genotypes(h) ==
  [j \in 1..Len(h) |->
     [k \in 1..(Len(h[j]) \div ploidy) |->
        [p \in 1..ploidy |-> h[j][ploidy * (k - 1) + p]]]]

\* genos.count_alleles(): per site, the number of calls of allele 0
\* (ancestral) and of allele 1 (derived) over all individuals.
count_alleles(g) ==
  [j \in 1..Len(g) |->
     [al \in 0..1 |->
        Cardinality({kp \in (1..Len(g[j])) \X (1..ploidy) :
                       g[j][kp[1]][kp[2]] = al})]]

\* ac[j, 1]: the number of copies of the derived allele at site j.
DerivedCount(h, j) == count_alleles(to_genotypes(h))[j][1]

\* Sum over the sites of the number of pairs of haplotypes that differ at
\* the site, k(n-k) for a site with k derived copies among n.
PairDiffs(h) ==
  Cardinality({jab \in (1..Len(h)) \X (1..Len(h[1])) \X (1..Len(h[1])) :
                 jab[2] < jab[3] /\ h[jab[1]][jab[2]] # h[jab[1]][jab[3]]})

\* ac.count_segregating()
SegCount(h) ==
  Cardinality({j \in 1..Len(h) :
                 DerivedCount(h, j) > 0 /\ DerivedCount(h, j) < Len(h[j])})

\* stop - start + 1 with start = pos[0], stop = pos[-1].
NBases(pos) == pos[Len(pos)] - pos[1] + 1

\* tajima_d(ac, pos=pos): nan below min_sites = 3 segregating sites, else
\* a value fixed by the pair differences and the segregating-site count.
tajima_d(h, pos) ==
  IF SegCount(h) < 3 THEN NaN ELSE <<"D", PairDiffs(h), SegCount(h)>>

\* sequence_diversity(pos, ac): pair differences over pairs times bases.
sequence_diversity(h, pos) ==
  <<PairDiffs(h), ((numSamples * (numSamples - 1)) \div 2) * NBases(pos)>>

\* watterson_theta(pos, ac): S over a1(n) times bases; a1(n) is a constant
\* of the sample count and is left out of the pair.
watterson_theta(h, pos) == <<SegCount(h), NBases(pos)>>

\* garud_h(haps)[0]: sum of the squared frequencies of the distinct
\* haplotypes, as <<sum of squared counts, n squared>>; the sum of the
\* squared counts is the number of ordered pairs of equal haplotypes.
garud_h1(h) ==
  <<Cardinality({ab \in (1..Len(h[1])) \X (1..Len(h[1])) :
                   \A j \in 1..Len(h) : h[j][ab[1]] = h[j][ab[2]]}),
    Len(h[1]) * Len(h[1])>>

\* currVec of one loop iteration, in the order it is appended.
CurrVecFromFirst(hs, ps, k) ==
  <<tajima_d(hs[1], ps[1]), sequence_diversity(hs[1], ps[1]),
    watterson_theta(hs[1], ps[1]), garud_h1(hs[1])>>

CurrVecNoGarud(hs, ps, k) ==
  <<tajima_d(hs[k], ps[k]), sequence_diversity(hs[k], ps[k]),
    watterson_theta(hs[k], ps[k])>>

\* The replicates a well-formed block with sites parses into, as pairs of
\* haplotype array and position array.
ParsedReplicates ==
  {<<HapArrayOf(b), PositionsOf(b, totalPhysLen)>> :
     b \in {c \in MsBlocks : c.segsites > 0}}

\* The four statistics of every such replicate, in the order the loop
\* appends them.
CurrVecOf ==
  [hp \in ParsedReplicates |->
     <<tajima_d(hp[1], hp[2]), sequence_diversity(hp[1], hp[2]),
       watterson_theta(hp[1], hp[2]), garud_h1(hp[1])>>]

CurrVec(hs, ps, k) == CurrVecOf[<<hs[k], ps[k]>>]

\* X = [] before the loop.
KeepX(old) == old

EmptyX(old) == << >>

(* ----------------------- train_test_split ----------------------------- *)

\* The four names one call of train_test_split binds, and the number of
\* the call a cell makes: the first at the end of the assembly cell, the
\* second in the cell after it.  madeBy keeps, for each name, the call that
\* bound it last.
SplitNames == {"X_train", "X_test", "Y_train", "Y_test"}

CallNo(step) == IF step = "split_a" THEN 1 ELSE 2

\* n_test = ceil(test_size * n), n_train = n - n_test.
TestCountFloor(n) == (n * TestSizeNum) \div TestSizeDen

TestCount(n) == (n * TestSizeNum + TestSizeDen - 1) \div TestSizeDen

\* check_consistent_length, and an empty training set, raise ValueError.
SplitRaisesNoLengthCheck(x, y) == Len(x) - TestCount(Len(x)) <= 0

SplitRaises(x, y) ==
  \/ Len(x) # Len(y)
  \/ Len(x) - TestCount(Len(x)) <= 0

\* The shuffles of the row indices a split can draw: every rotation of
\* 1..n and of n..1 (all the permutations up to n = 3).
Shuffles(n) ==
  {[k \in 1..n |-> ((k + r - 1) % n) + 1] : r \in 0..(n - 1)}
  \cup {[k \in 1..n |-> n - ((k + r - 1) % n)] : r \in 0..(n - 1)}

\* The shuffled indices: the first n_test go to the test subset, the
\* rest to the training subset.
TestIndices(perm) == SubSeq(perm, 1, TestCount(Len(perm)))

TrainIndicesAll(perm) == perm

TrainIndices(perm) == SubSeq(perm, TestCount(Len(perm)) + 1, Len(perm))

Take(arr, idx) == [k \in 1..Len(idx) |-> arr[idx[k]]]

(* ------------------------- the notebook's cells ----------------------- *)

\* The steps of a run in document order of the code cells.
AfterFitFirst(step) ==
  CASE step = "sample"   -> "simulate"
    [] step = "simulate" -> "parse"
    [] step = "parse"    -> "features"
    [] step = "features" -> "labels"
    [] step = "labels"   -> "fit"
    [] step = "fit"      -> "split_a"
    [] step = "split_a"  -> "split_b"
    [] step = "split_b"  -> "predict"
    [] step = "predict"  -> "score"
    [] OTHER             -> "done"

After(step) ==
  CASE step = "sample"   -> "simulate"
    [] step = "simulate" -> "parse"
    [] step = "parse"    -> "features"
    [] step = "features" -> "labels"
    [] step = "labels"   -> "split_a"
    [] step = "split_a"  -> "split_b"
    [] step = "split_b"  -> "fit"
    [] step = "fit"      -> "predict"
    [] step = "predict"  -> "score"
    [] OTHER             -> "done"

\* The stage a step belongs to: 1 sampler, 2 simulator, 3 assembler,
\* 4 partition (called at the end of the assembly cell and again in the
\* next cell), 5 regressor fit, 6 evaluator, 7 end of the run.
Stage(step) ==
  CASE step = "sample"   -> 1
    [] step = "simulate" -> 2
    [] step \in {"parse", "features", "labels"} -> 3
    [] step \in {"split_a", "split_b"} -> 4
    [] step = "fit"      -> 5
    [] step \in {"predict", "score"} -> 6
    [] OTHER             -> 7

\* A fresh kernel in a directory without the two files: no name is bound
\* (names) and no file exists (files); the other variables hold the empty
\* value of their type until they are first assigned.
Init ==
  /\ pc = "sample"
  /\ failed = FALSE
  /\ i = 0
  /\ drawn = << >>
  /\ sizesFile = << >>
  /\ msOut = NoFile
  /\ tbsUsed = << >>
  /\ simArgs = << >>
  /\ hapArraysIn = << >>
  /\ positionArrays = << >>
  /\ X = << >>
  /\ Y = << >>
  /\ trainIdx = << >>
  /\ testIdx = << >>
  /\ X_train = << >>
  /\ X_test = << >>
  /\ Y_train = << >>
  /\ Y_test = << >>
  /\ clf = [X |-> << >>, Y |-> << >>, idx |-> << >>, f |-> << >>]
  /\ preds = << >>
  /\ mse = [diffs |-> << >>, n |-> 0]
  /\ Xfirst = << >>
  /\ runs = 1
  /\ names = {}
  /\ files = {}
  /\ madeBy = [a \in SplitNames |-> 0]

filesVars == <<drawn, sizesFile, msOut, tbsUsed, simArgs>>

parseVars == <<hapArraysIn, positionArrays>>

splitVars == <<trainIdx, testIdx, X_train, X_test, Y_train, Y_test, madeBy>>

modelVars == <<clf, preds, mse>>

rerunVars == <<Xfirst, runs>>

envVars == <<names, files>>

\* The cell raised: the run stops where it is.
RaiseSwallowed == failed' = FALSE /\ pc' = After(pc) /\ names' = names

Raise == failed' = TRUE /\ pc' = pc /\ names' = names

\* One iteration of the sampler loop: draw, format, write the line.
SampleStep ==
  /\ pc = "sample" /\ ~failed /\ i < SamplerCount
  /\ \E r \in RandomOutcomes :
       /\ drawn' = Append(drawn, PopSizeOf(r))
       /\ sizesFile' = Append(sizesFile, FormatF(PopSizeOf(r)))
  /\ i' = i + 1
  /\ files' = files \cup {SizesName}
  /\ UNCHANGED <<pc, failed, msOut, tbsUsed, simArgs, parseVars, X, Y,
                 splitVars, modelVars, rerunVars, names>>

\* The loop is over and the with block closes the file.
SampleClose ==
  /\ pc = "sample" /\ ~failed /\ i = SamplerCount
  /\ pc' = After(pc)
  /\ i' = 0
  /\ files' = files \cup {SizesName}
  /\ UNCHANGED <<failed, filesVars, parseVars, X, Y, splitVars, modelVars,
                 rerunVars, names>>

\* The line of the parameter file replicate k is simulated with.
TbsOfShifted(file, k) == file[IF k < Len(file) THEN k + 1 ELSE 1]

TbsOf(file, k) == file[k]

\* The parameters replicate k is simulated under: the arguments of the
\* command line, the tbs slot of -en filled with the k-th line of stdin.
SimParamsTbsAsTheta(file, k) ==
  [nsam   |-> numSamples,
   nreps  |-> numSims,
   theta  |-> ParseFloat(TbsOf(file, k)),
   rho    |-> RhoArg,
   nsites |-> RecSites,
   en     |-> [time |-> EnTimeTenths, subpop |-> EnSubpop, size |-> Micro]]

SimParams(file, k) ==
  [nsam   |-> numSamples,
   nreps  |-> numSims,
   theta  |-> ThetaArg,
   rho    |-> RhoArg,
   nsites |-> RecSites,
   en     |-> [time |-> EnTimeTenths, subpop |-> EnSubpop,
               size |-> ParseFloat(TbsOf(file, k))]]

\* The simulator run with its output also appended to the parameter file.
MsRunOkWritesInput ==
  /\ pc = "simulate" /\ ~failed
  /\ Len(sizesFile) >= numSims
  /\ \E bs \in [1..numSims -> MsBlocks] :
       msOut' = [header |-> TRUE, blocks |-> bs]
  /\ tbsUsed' = [k \in 1..numSims |-> TbsOf(sizesFile, k)]
  /\ simArgs' = [k \in 1..numSims |-> SimParams(sizesFile, k)]
  /\ sizesFile' = Append(sizesFile, FormatF(Micro))
  /\ pc' = After(pc)
  /\ files' = files \cup {MsOutName}
  /\ UNCHANGED <<failed, i, drawn, parseVars, X, Y, splitVars,
                 modelVars, rerunVars, names>>

\* ./ms 20 10000 ... < sizes > msOut runs to its end: one block per
\* replicate, replicate k simulated with the k-th line of its input.
MsRunOk ==
  /\ pc = "simulate" /\ ~failed
  /\ Len(sizesFile) >= numSims
  /\ \E bs \in [1..numSims -> MsBlocks] :
       msOut' = [header |-> TRUE, blocks |-> bs]
  /\ tbsUsed' = [k \in 1..numSims |-> TbsOf(sizesFile, k)]
  /\ simArgs' = [k \in 1..numSims |-> SimParams(sizesFile, k)]
  /\ pc' = After(pc)
  /\ files' = files \cup {MsOutName}
  /\ UNCHANGED <<failed, i, drawn, sizesFile, parseVars, X, Y, splitVars,
                 modelVars, rerunVars, names>>

\* The binary is missing: the shell still creates the output file, empty.
\* A shell escape does not raise, so the run goes on.
MsRunMissing ==
  /\ pc = "simulate" /\ ~failed
  /\ msOut' = NoFile
  /\ tbsUsed' = << >>
  /\ simArgs' = << >>
  /\ pc' = After(pc)
  /\ files' = files \cup {MsOutName}
  /\ UNCHANGED <<failed, i, drawn, sizesFile, parseVars, X, Y, splitVars,
                 modelVars, rerunVars, names>>

\* The ways a damaged output ends after its complete blocks: cut at a
\* block boundary, cut inside a block, or one garbled block with a sound
\* block after it.
DamagedTails ==
  {<< >>,
   <<Truncated(MsBlock(1, "spread", "single"))>>,
   <<Garbled(MsBlock(1, "spread", "single")), MsBlock(1, "spread", "single")>>}

\* The simulator stops early or its output is damaged: fewer sound blocks
\* than replicates.
MsRunDamaged ==
  /\ pc = "simulate" /\ ~failed
  /\ \E k \in 0..(numSims - 1), tail \in DamagedTails :
       /\ k + Len(tail) <= numSims
       /\ Len(sizesFile) >= k + Len(tail)
       /\ \E bs \in [1..k -> MsBlocks] :
            /\ msOut' = [header |-> TRUE, blocks |-> bs \o tail]
            /\ tbsUsed' = [n \in 1..(k + Len(tail)) |-> TbsOf(sizesFile, n)]
            /\ simArgs' = [n \in 1..(k + Len(tail)) |->
                             SimParams(sizesFile, n)]
  /\ pc' = After(pc)
  /\ files' = files \cup {MsOutName}
  /\ UNCHANGED <<failed, i, drawn, sizesFile, parseVars, X, Y, splitVars,
                 modelVars, rerunVars, names>>

\* The parse with the header line taken for a first, empty replicate.
ParseHeaderAsBlock ==
  /\ pc = "parse" /\ ~failed
  /\ IF Parses(msOut, totalPhysLen)
     THEN /\ hapArraysIn' = <<HapArrayOf(MsBlock(0, "spread", "single"))>> \o
                             [k \in 1..Len(msOut.blocks) |->
                                HapArrayOf(msOut.blocks[k])]
          /\ positionArrays' =
               <<PositionsOf(MsBlock(0, "spread", "single"), totalPhysLen)>> \o
               [k \in 1..Len(msOut.blocks) |->
                  PositionsOf(msOut.blocks[k], totalPhysLen)]
          /\ X' = EmptyX(X)
          /\ i' = 0
          /\ pc' = After(pc)
          /\ names' = names \cup {"hapArraysIn", "positionArrays", "X"}
          /\ UNCHANGED failed
     ELSE Raise /\ UNCHANGED <<i, parseVars, X>>
  /\ UNCHANGED <<filesVars, Y, splitVars, modelVars, rerunVars, files>>

\* hapArraysIn, positionArrays = msOutToHaplotypeArrayIn(msOut, totalPhysLen)
\* and X = []; a stream that does not parse ends the run.
Parse ==
  /\ pc = "parse" /\ ~failed
  /\ IF Parses(msOut, totalPhysLen)
     THEN /\ hapArraysIn' = [k \in 1..Len(msOut.blocks) |->
                               HapArrayOf(msOut.blocks[k])]
          /\ positionArrays' = [k \in 1..Len(msOut.blocks) |->
                                  PositionsOf(msOut.blocks[k], totalPhysLen)]
          /\ X' = EmptyX(X)
          /\ i' = 0
          /\ pc' = After(pc)
          /\ names' = names \cup {"hapArraysIn", "positionArrays", "X"}
          /\ UNCHANGED failed
     ELSE Raise /\ UNCHANGED <<i, parseVars, X>>
  /\ UNCHANGED <<filesVars, Y, splitVars, modelVars, rerunVars, files>>

\* The iteration with the new row put in front of the rows already there.
FeatureStepInsertFront ==
  /\ pc = "features" /\ ~failed /\ i < Len(hapArraysIn)
  /\ IF StatsRaise(hapArraysIn[i + 1], positionArrays[i + 1])
     THEN Raise /\ UNCHANGED <<i, X>>
     ELSE /\ X' = <<CurrVec(hapArraysIn, positionArrays, i + 1)>> \o X
          /\ i' = i + 1
          /\ UNCHANGED <<pc, failed, names>>
  /\ UNCHANGED <<filesVars, parseVars, Y, splitVars, modelVars, rerunVars,
                 files>>

\* One iteration of the feature loop: the four statistics of replicate
\* i appended as one row, or the exception of a statistic.
FeatureStep ==
  /\ pc = "features" /\ ~failed /\ i < Len(hapArraysIn)
  /\ IF StatsRaise(hapArraysIn[i + 1], positionArrays[i + 1])
     THEN Raise /\ UNCHANGED <<i, X>>
     ELSE /\ X' = Append(X, CurrVec(hapArraysIn, positionArrays, i + 1))
          /\ i' = i + 1
          /\ UNCHANGED <<pc, failed, names>>
  /\ UNCHANGED <<filesVars, parseVars, Y, splitVars, modelVars, rerunVars,
                 files>>

FeaturesDone ==
  /\ pc = "features" /\ ~failed /\ i = Len(hapArraysIn)
  /\ pc' = After(pc)
  /\ UNCHANGED <<failed, i, filesVars, parseVars, X, Y, splitVars,
                 modelVars, rerunVars, envVars>>

\* Y = np.loadtxt(sizes): every line of the parameter file, in file order.
LabelsOfReversed(file) ==
  [k \in 1..Len(file) |-> ParseFloat(file[Len(file) + 1 - k])]

LabelsOf(file) == [k \in 1..Len(file) |-> ParseFloat(file[k])]

\* X = np.array(X); Y = np.loadtxt("random_pop_size.sizes")
LoadLabels ==
  /\ pc = "labels" /\ ~failed
  /\ Y' = LabelsOf(sizesFile)
  /\ pc' = After(pc)
  /\ names' = names \cup {"Y"}
  /\ UNCHANGED <<failed, i, filesVars, parseVars, X, splitVars, modelVars,
                 rerunVars, files>>

\* X_train, X_test, Y_train, Y_test = train_test_split(X, Y, test_size=0.1)
\* Every array is indexed with the same shuffled indices.
SplitLabelsInFileOrder ==
  IF SplitRaises(X, Y)
  THEN Raise /\ UNCHANGED splitVars
  ELSE /\ \E perm \in Shuffles(Len(X)) :
            /\ trainIdx' = TrainIndices(perm)
            /\ testIdx' = TestIndices(perm)
            /\ X_train' = Take(X, TrainIndices(perm))
            /\ X_test' = Take(X, TestIndices(perm))
            /\ Y_train' = SubSeq(Y, TestCount(Len(Y)) + 1, Len(Y))
            /\ Y_test' = SubSeq(Y, 1, TestCount(Len(Y)))
       /\ madeBy' = [a \in SplitNames |-> CallNo(pc)]
       /\ pc' = After(pc)
       /\ names' = names \cup SplitNames
       /\ UNCHANGED failed

Split ==
  IF SplitRaises(X, Y)
  THEN Raise /\ UNCHANGED splitVars
  ELSE /\ \E perm \in Shuffles(Len(X)) :
            /\ trainIdx' = TrainIndices(perm)
            /\ testIdx' = TestIndices(perm)
            /\ X_train' = Take(X, TrainIndices(perm))
            /\ X_test' = Take(X, TestIndices(perm))
            /\ Y_train' = Take(Y, TrainIndices(perm))
            /\ Y_test' = Take(Y, TestIndices(perm))
       /\ madeBy' = [a \in SplitNames |-> CallNo(pc)]
       /\ pc' = After(pc)
       /\ names' = names \cup SplitNames
       /\ UNCHANGED failed

\* The split at the end of the assembly cell.
SplitA ==
  /\ pc = "split_a" /\ ~failed
  /\ Split
  /\ UNCHANGED <<i, filesVars, parseVars, X, Y, modelVars, rerunVars, files>>

\* The split of the cell after it.
SplitBTrainOnly ==
  /\ pc = "split_b" /\ ~failed
  /\ IF SplitRaises(X, Y)
     THEN Raise /\ UNCHANGED splitVars
     ELSE /\ \E perm \in Shuffles(Len(X)) :
               /\ trainIdx' = TrainIndices(perm)
               /\ X_train' = Take(X, TrainIndices(perm))
               /\ Y_train' = Take(Y, TrainIndices(perm))
          /\ madeBy' = [madeBy EXCEPT !["X_train"] = CallNo(pc),
                                      !["Y_train"] = CallNo(pc)]
          /\ pc' = After(pc)
          /\ names' = names \cup SplitNames
          /\ UNCHANGED <<failed, testIdx, X_test, Y_test>>
  /\ UNCHANGED <<i, filesVars, parseVars, X, Y, modelVars, rerunVars, files>>

SplitB ==
  /\ pc = "split_b" /\ ~failed
  /\ Split
  /\ UNCHANGED <<i, filesVars, parseVars, X, Y, modelVars, rerunVars, files>>

\* clf = RandomForestRegressor(...); clf.fit(X_train, Y_train)
\* The record keeps what fit received, the row indices it stands for and
\* the fitted forest: the value it gives to a row, one of the training
\* labels here, for every row it is going to be asked about (the rows of
\* X_test: predict and score are called with nothing else).
FitOnAll ==
  /\ pc = "fit" /\ ~failed
  /\ \E f \in [Range(X_test) -> Range(Y)] :
       clf' = [X |-> X, Y |-> Y, idx |-> [k \in 1..Len(X) |-> k], f |-> f]
  /\ pc' = After(pc)
  /\ names' = names \cup {"clf"}
  /\ UNCHANGED <<failed, i, filesVars, parseVars, X, Y, splitVars, preds,
                 mse, rerunVars, files>>

Fit ==
  /\ pc = "fit" /\ ~failed
  /\ \E f \in [Range(X_test) -> Range(Y_train)] :
       clf' = [X |-> X_train, Y |-> Y_train, idx |-> trainIdx, f |-> f]
  /\ pc' = After(pc)
  /\ names' = names \cup {"clf"}
  /\ UNCHANGED <<failed, i, filesVars, parseVars, X, Y, splitVars, preds,
                 mse, rerunVars, files>>

\* preds = clf.predict(X_test): one value per test row, the forest's value
\* for that row, in the order of the rows.
PredictReversed ==
  /\ pc = "predict" /\ ~failed
  /\ preds' = [j \in 1..Len(X_test) |-> clf.f[X_test[Len(X_test) + 1 - j]]]
  /\ pc' = After(pc)
  /\ names' = names \cup {"preds"}
  /\ UNCHANGED <<failed, i, filesVars, parseVars, X, Y, splitVars, clf, mse,
                 rerunVars, files>>

Predict ==
  /\ pc = "predict" /\ ~failed
  /\ preds' = [j \in 1..Len(X_test) |-> clf.f[X_test[j]]]
  /\ pc' = After(pc)
  /\ names' = names \cup {"preds"}
  /\ UNCHANGED <<failed, i, filesVars, parseVars, X, Y, splitVars, clf, mse,
                 rerunVars, files>>

\* np.mean((preds-Y_test)**2): kept as the differences and their count.
Score ==
  /\ pc = "score" /\ ~failed
  /\ mse' = [diffs |-> [j \in 1..Len(preds) |-> preds[j] - Y_test[j]],
             n     |-> Len(preds)]
  /\ pc' = After(pc)
  /\ UNCHANGED <<failed, i, filesVars, parseVars, X, Y, splitVars, clf,
                 preds, rerunVars, envVars>>

Next ==
  \/ SampleStep
  \/ SampleClose
  \/ MsRunOk
  \/ MsRunMissing
  \/ MsRunDamaged
  \/ Parse
  \/ FeatureStep
  \/ FeaturesDone
  \/ LoadLabels
  \/ SplitA
  \/ SplitB
  \/ Fit
  \/ Predict
  \/ Score

Spec == Init /\ [][Next]_vars

\* The kernel runs the cell it is given until the cell ends or raises,
\* and a run hands it the next cell as soon as one ends: a step that can
\* be taken is taken.
SpecLive == Init /\ [][Next]_vars /\ WF_vars(Next)

\* The assembly cell executed a second time on the same output file, once
\* its first execution is over: the matrix of the first execution is kept
\* aside for comparison.
RerunAssembler ==
  /\ pc = "split_b" /\ ~failed /\ runs = 1
  /\ Xfirst' = X
  /\ runs' = 2
  /\ pc' = "parse"
  /\ UNCHANGED <<failed, i, filesVars, parseVars, X, Y, splitVars, modelVars,
                 envVars>>

\* The cells up to the assembly cell, and the assembly cell once more.
NextRerun ==
  \/ SampleStep
  \/ SampleClose
  \/ MsRunOk
  \/ MsRunMissing
  \/ MsRunDamaged
  \/ Parse
  \/ FeatureStep
  \/ FeaturesDone
  \/ LoadLabels
  \/ SplitA
  \/ RerunAssembler

SpecRerun == Init /\ [][NextRerun]_vars

(* ------------------------------ claims -------------------------------- *)

\* The assembly cell ran to its end (both arrays built and split once).
AssemblyOver == pc \in {"split_b", "fit", "predict", "score", "done"}

CountsEqual == Len(X) = Len(Y) /\ Len(X) = Len(hapArraysIn)

\* C1: once the assembly cell is over, the rows of X, the labels of Y and
\* the parsed replicates are equally many; a run where the counts differ
\* stands at the first split, which raises, with no regressor fitted and
\* no training set handed out.
C1_CountsAgree ==
  /\ AssemblyOver => CountsEqual
  /\ ("Y" \in names /\ ~CountsEqual) =>
       /\ pc = "split_a"
       /\ SplitRaises(X, Y)
       /\ "X_train" \notin names
       /\ "clf" \notin names

C1_Witness ==
  /\ failed /\ pc = "split_a"
  /\ Len(Y) = NRep /\ Len(X) = NRep - 1 /\ Len(hapArraysIn) = NRep - 1

\* The feature row the loop builds from one block of the stream, for
\* every block with sites the simulator can print.
RowOfBlock ==
  [b \in {c \in MsBlocks : c.segsites > 0} |->
     CurrVec(<<HapArrayOf(b)>>, <<PositionsOf(b, totalPhysLen)>>, 1)]

\* C2: label k is the parsed line the simulator consumed for replicate k,
\* and row k of X is the row of the k-th block of the simulator's output.
C2_LabelAlignment ==
  ("Y" \in names) =>
     \A k \in 1..Len(X) :
        k <= Len(Y) =>
          /\ Y[k] = ParseFloat(tbsUsed[k])
          /\ X[k] = RowOfBlock[msOut.blocks[k]]

C2_Witness ==
  /\ pc = "done" /\ ~failed
  /\ Y[1] # Y[2]
  /\ X[1] # X[2]

IsFloatText(line) ==
  /\ Len(line) = 2
  /\ line[1] \in Nat
  /\ line[2] \in 0..(Micro - 1)

\* C4: the sampler writes one line per iteration, SamplerCount lines in
\* all, line k being the formatted k-th drawn value (no header), and every
\* line parses to a float between 0.1 and 10.
C4_SamplerLines ==
  /\ pc = "sample" => Len(sizesFile) = i
  /\ pc # "sample" => Len(sizesFile) = SamplerCount
  /\ Len(drawn) = Len(sizesFile)
  /\ \A k \in 1..Len(sizesFile) :
       /\ sizesFile[k] = FormatF(drawn[k])
       /\ IsFloatText(sizesFile[k])
       /\ ParseFloat(sizesFile[k]) >= Micro \div 10
       /\ ParseFloat(sizesFile[k]) <= 10 * Micro

C4_Witness ==
  /\ pc = "simulate"
  /\ Len(sizesFile) = SamplerCount
  /\ ParseFloat(sizesFile[1]) = 10 * Micro
  /\ ParseFloat(sizesFile[SamplerCount]) = Micro \div 10

MalformedBlock == \E k \in 1..Len(msOut.blocks) : ~WellFormed(msOut.blocks[k])

\* Nothing of the stream got past the parser: the run stands at the parse,
\* which raises, and no matrix, training set or regressor exists.
StoppedAtParse ==
  /\ pc = "parse"
  /\ ~Parses(msOut, totalPhysLen)
  /\ names \cap {"hapArraysIn", "X", "X_train", "X_test", "clf"} = {}

\* C5: with a malformed block anywhere in the simulator's output the run
\* ends at the parse: no block, the malformed one or a later one, is turned
\* into a row, and nothing is handed to the partition or the regressor.
C5_MalformedFailsRun ==
  (MsOutName \in files /\ MalformedBlock) => StoppedAtParse

C5_Witness ==
  /\ failed /\ pc = "parse" /\ msOut.header
  /\ ~WellFormed(msOut.blocks[1])
  /\ Len(msOut.blocks) > 1 /\ WellFormed(msOut.blocks[2])

\* Two sites of replicate k share a discrete coordinate.
Collides(k) ==
  \E a, b \in 1..Len(positionArrays[k]) :
     a # b /\ positionArrays[k][a] = positionArrays[k][b]

\* C6: a run never ends without failure on an output one of whose
\* blocks has more segregating sites than totalPhysLen, two sites of
\* which then share a discrete coordinate.
C6_ResolutionGuard ==
  (pc = "done" /\ ~failed) =>
     \A k \in 1..Len(msOut.blocks) :
        ~(totalPhysLen < msOut.blocks[k].segsites /\ Collides(k))

\* The loop has got to replicate k and is past it.
PastReplicate(k) == (pc = "features" /\ i >= k) \/ Stage(pc) > 3

\* C7: a parsed replicate without segregating sites does not stop the
\* run, and once the loop is past it, its row is in X with the sentinel in
\* the first column.
C7_ZeroSitesRowAppended ==
  ("hapArraysIn" \in names) =>
     \A k \in 1..Len(hapArraysIn) :
        Len(positionArrays[k]) = 0 =>
          /\ ~(failed /\ pc = "features" /\ i = k - 1)
          /\ PastReplicate(k) => (Len(X) >= k /\ X[k][1] = NaN)

\* C8: the second execution of the assembly cell on the same output file
\* does not fail where the first did not, rebuilds the rows of the first
\* one by one, and ends with the same matrix.
C8_RerunSameMatrix ==
  (runs = 2) =>
     /\ pc \in {"parse", "features"} => ~failed
     /\ pc = "features" => X = SubSeq(Xfirst, 1, i)
     /\ pc \notin {"parse", "features"} => X = Xfirst

C8_Witness ==
  /\ runs = 2 /\ pc = "split_b" /\ ~failed
  /\ Len(X) = NRep
  /\ X[1] # X[NRep]

\* C9: every step starts from a run that has not failed, keeps the stage
\* or moves to the next one (never back, never skipping one), and a step
\* that fails leaves the run where it is.
C9_StagesInOrder ==
  [][/\ ~failed
     /\ Stage(pc') >= Stage(pc)
     /\ Stage(pc') <= Stage(pc) + 1
     /\ failed' => pc' = pc]_vars

C9_Witness ==
  /\ pc = "done" /\ ~failed
  /\ names = {"hapArraysIn", "positionArrays", "X", "Y", "X_train", "X_test",
              "Y_train", "Y_test", "clf", "preds"}

\* C10: the training and the test indices of a split share no index,
\* together are all the row indices of X, each once, and the four arrays
\* hold one entry per index of their subset.
C10_PartitionDisjointCover ==
  ("X_train" \in names) =>
     /\ Range(trainIdx) \cap Range(testIdx) = {}
     /\ Range(trainIdx) \cup Range(testIdx) = 1..Len(X)
     /\ Len(trainIdx) + Len(testIdx) = Len(X)
     /\ Len(X_train) = Len(trainIdx) /\ Len(Y_train) = Len(trainIdx)
     /\ Len(X_test) = Len(testIdx) /\ Len(Y_test) = Len(testIdx)

C10_Witness ==
  /\ pc = "split_b" /\ ~failed
  /\ Len(testIdx) = 1
  /\ Len(trainIdx) = NRep - 1

\* C11: the regressor is fitted on the training subset of the partition in
\* force and on nothing else; the rows it was fitted on and the test rows
\* share no row index; predictions and the score are computed on the test
\* subset of that same partition, one prediction per test row.
C11_TestSetHeldOut ==
  ("clf" \in names) =>
     /\ clf.X = X_train /\ clf.Y = Y_train /\ clf.idx = trainIdx
     /\ clf.X = Take(X, trainIdx)
     /\ Range(clf.idx) \cap Range(testIdx) = {}
     /\ ("preds" \in names) =>
          /\ Len(preds) = Len(testIdx)
          /\ X_test = Take(X, testIdx)
          /\ Y_test = Take(Y, testIdx)
     /\ (pc = "done") =>
          /\ mse.n = Len(testIdx)
          /\ \A j \in 1..mse.n : mse.diffs[j] = preds[j] - Y[testIdx[j]]

C11_Witness ==
  /\ pc = "done" /\ ~failed
  /\ Len(clf.idx) = NRep - 1 /\ Len(testIdx) = 1
  /\ mse.n = 1

\* The simulator invocation failed: the shell found no binary to run and
\* left the output file it had created empty.
SimulatorFailed == MsOutName \in files /\ ~msOut.header

\* C12: a failed simulator invocation aborts the run in the simulator's
\* cell: no later cell is started on the output it left.
C12_SimulatorFailureAborts ==
  SimulatorFailed => (failed /\ pc = "simulate")

\* Every cell ran to its end on a complete simulation: both loops did
\* their N iterations and every result of the run is bound.
RunCompleted ==
  /\ ~failed
  /\ Len(sizesFile) = SamplerCount
  /\ msOut.header /\ Len(msOut.blocks) = numSims
  /\ i = numSims /\ Len(X) = numSims /\ Len(Y) = numSims
  /\ names = {"hapArraysIn", "positionArrays", "X", "Y", "X_train", "X_test",
              "Y_train", "Y_test", "clf", "preds"}
  /\ mse.n = Len(testIdx)

AlignedAt(xs, ys, idx) ==
  /\ Len(xs) = Len(idx) /\ Len(ys) = Len(idx)
  /\ \A k \in 1..Len(idx) :
       /\ xs[k] = X[idx[k]]
       /\ ys[k] = Y[idx[k]]
       /\ xs[k] = RowOfBlock[msOut.blocks[idx[k]]]
       /\ ys[k] = ParseFloat(tbsUsed[idx[k]])

\* C14: after a split, the row and the label at one position of the
\* training subset come from the same replicate, and so do the row and the
\* label at one position of the test subset.
C14_SplitKeepsAlignment ==
  ("X_train" \in names) =>
     /\ AlignedAt(X_train, Y_train, trainIdx)
     /\ AlignedAt(X_test, Y_test, testIdx)

C14_Witness ==
  /\ pc = "fit" /\ ~failed
  /\ Len(trainIdx) >= 2 /\ trainIdx[1] > trainIdx[2]
  /\ X_train[1] # X_train[2]
  /\ Y_train[1] # Y_train[2]
  /\ Y_test[1] # Y[1]

\* C15: the parser returns one haplotype array and one position array
\* per block of the stream, the header line giving none; the k-th array
\* of each list holds the sample lines, and the positions, of the k-th
\* block.
C15_BlocksInStreamOrder ==
  ("hapArraysIn" \in names) =>
     /\ msOut.header
     /\ Len(hapArraysIn) = Len(msOut.blocks)
     /\ Len(positionArrays) = Len(msOut.blocks)
     /\ \A k \in 1..Len(msOut.blocks) :
          /\ Len(hapArraysIn[k]) = msOut.blocks[k].segsites
          /\ Len(positionArrays[k]) = Len(msOut.blocks[k].positions)
          /\ \A j \in 1..Len(hapArraysIn[k]) :
               /\ positionArrays[k][j] =
                    (msOut.blocks[k].positions[j] * totalPhysLen) \div PosDen
               /\ \A a \in 1..Len(hapArraysIn[k][j]) :
                    hapArraysIn[k][j][a] = msOut.blocks[k].samples[a][j]

C15_Witness ==
  /\ pc = "features" /\ ~failed
  /\ Len(hapArraysIn) = NRep
  /\ hapArraysIn[1] # hapArraysIn[NRep]
  /\ positionArrays[1] # positionArrays[2]

\* C16: every parsed replicate has as many sites in its matrix and as
\* many positions as its block declares, one entry per haploid sample at
\* every site, numSamples of them, and no entry but 0 and 1.
C16_BinaryMatrixShape ==
  ("hapArraysIn" \in names) =>
     \A k \in 1..Len(hapArraysIn) :
        /\ Len(hapArraysIn[k]) = msOut.blocks[k].segsites
        /\ Len(positionArrays[k]) = msOut.blocks[k].segsites
        /\ \A j \in 1..Len(hapArraysIn[k]) :
             /\ Len(hapArraysIn[k][j]) = numSamples
             /\ \A a \in 1..numSamples : hapArraysIn[k][j][a] \in {0, 1}

C16_Witness ==
  /\ pc = "features" /\ ~failed
  /\ \E k \in 1..Len(hapArraysIn) : Len(hapArraysIn[k]) = totalPhysLen + 1
  /\ \E k \in 1..Len(hapArraysIn) : Len(hapArraysIn[k]) = 0
  /\ \E k \in 1..Len(hapArraysIn) :
       Len(hapArraysIn[k]) = 3 /\ hapArraysIn[k][1][numSamples \div 2] = 1

StatsOfReplicate ==
  [hp \in ParsedReplicates |->
     [D  |-> tajima_d(hp[1], hp[2]),
      pi |-> sequence_diversity(hp[1], hp[2]),
      thetaW |-> watterson_theta(hp[1], hp[2]),
      H1 |-> garud_h1(hp[1])]]

\* C18: row k of X holds, in this order, Tajima's D, pi, Watterson's theta
\* and the first Garud statistic, each computed from the k-th haplotype
\* array and the k-th position array and from no other replicate.
C18_RowFromOwnReplicate ==
  ("X" \in names) =>
     \A k \in 1..Len(X) :
        /\ Len(X[k]) = 4
        /\ X[k][1] = StatsOfReplicate[<<hapArraysIn[k], positionArrays[k]>>].D
        /\ X[k][2] = StatsOfReplicate[<<hapArraysIn[k], positionArrays[k]>>].pi
        /\ X[k][3] =
             StatsOfReplicate[<<hapArraysIn[k], positionArrays[k]>>].thetaW
        /\ X[k][4] = StatsOfReplicate[<<hapArraysIn[k], positionArrays[k]>>].H1

C18_Witness ==
  /\ pc = "done" /\ ~failed
  /\ X[1][1] = NaN /\ X[2][1] # NaN
  /\ X[2][4] # X[NRep][4]
  /\ X[2][2] # X[NRep][2]

\* C19: while the loop runs X holds as many rows as iterations are over;
\* an iteration that ends adds one row after the rows already there and
\* leaves those as they were; the parse cell's X = [] apart, no other
\* step of the run changes X.
C19_AppendOnly ==
  /\ [](pc = "features" => Len(X) = i)
  /\ [][IF pc = "features" /\ i' = i + 1
        THEN /\ Len(X') = Len(X) + 1
             /\ SubSeq(X', 1, Len(X)) = X
        ELSE IF pc = "parse"
             THEN X' = << >>
             ELSE X' = X]_vars

C19_Witness ==
  /\ pc = "features" /\ ~failed
  /\ i = 2 /\ Len(X) = 2
  /\ X[1] # X[2]

SimulationComplete ==
  MsOutName \in files /\ msOut.header /\ Len(msOut.blocks) = numSims

SamplerLines == {FormatF(PopSizeOf(r)) : r \in RandomOutcomes}

\* C23: from one and the same state the sampler can go on to write
\* either of two different lines, and a split that does not raise can go on
\* to either of two different test subsets of the same (X, Y); the
\* assembler's arrays are fixed by the two files it reads: X by the
\* blocks of the simulator's output, Y by the lines of the parameter file.
C23_NotReproducible ==
  /\ (pc = "sample" /\ ~failed /\ i < SamplerCount) =>
        \E a, b \in SamplerLines :
           /\ a # b
           /\ ENABLED (SampleStep /\ sizesFile' = Append(sizesFile, a))
           /\ ENABLED (SampleStep /\ sizesFile' = Append(sizesFile, b))
  /\ (pc \in {"split_a", "split_b"} /\ ~failed /\ ~SplitRaises(X, Y)) =>
        \E p, q \in Shuffles(Len(X)) :
           /\ Range(TestIndices(p)) # Range(TestIndices(q))
           /\ ENABLED ((SplitA \/ SplitB) /\ testIdx' = TestIndices(p))
           /\ ENABLED ((SplitA \/ SplitB) /\ testIdx' = TestIndices(q))
  /\ (pc = "features") =>
        X = [k \in 1..i |-> RowOfBlock[msOut.blocks[k]]]
  /\ AssemblyOver =>
        /\ X = [k \in 1..Len(msOut.blocks) |-> RowOfBlock[msOut.blocks[k]]]
        /\ Y = LabelsOf(sizesFile)

C23_Witness ==
  /\ pc = "fit" /\ ~failed
  /\ sizesFile[1] # sizesFile[2]
  /\ testIdx[1] # 1
  /\ X[1] # X[testIdx[1]]

(* ---------------------- the evaluator cells alone --------------------- *)

\* The feature rows and the labels a run can produce.
EvalRows == {RowOfBlock[b] : b \in DOMAIN RowOfBlock}

EvalLabels == {ParseFloat(l) : l \in SamplerLines}

\* The kernel after the fit of a run whose split held out n rows, the
\* first n of ten times as many: the test rows and labels are any the run
\* can produce, the training rows are one row over and over with the
\* labels taking turns, the forest is any.  The files and the parser's
\* arrays, which the evaluator cells do not read, are left out.
InitEval ==
  \E n \in 1..MaxTest :
    \E xs \in [1..n -> EvalRows], ys \in [1..n -> EvalLabels] :
      \E f \in [Range(xs) -> EvalLabels] :
        LET ntrain == (TestSizeDen - TestSizeNum) * n
            r0 == CHOOSE r \in EvalRows : TRUE
            xtr == [k \in 1..ntrain |-> r0]
            ytr == [k \in 1..ntrain |->
                      IF k % 2 = 1 THEN Micro \div 10 ELSE 10 * Micro]
        IN /\ pc = "predict"
           /\ failed = FALSE
           /\ i = n + ntrain
           /\ drawn = << >>
           /\ sizesFile = << >>
           /\ msOut = NoFile
           /\ tbsUsed = << >>
           /\ simArgs = << >>
           /\ hapArraysIn = << >>
           /\ positionArrays = << >>
           /\ X = xs \o xtr
           /\ Y = ys \o ytr
           /\ testIdx = [k \in 1..n |-> k]
           /\ trainIdx = [k \in 1..ntrain |-> n + k]
           /\ X_train = xtr
           /\ X_test = xs
           /\ Y_train = ytr
           /\ Y_test = ys
           /\ clf = [X |-> xtr, Y |-> ytr,
                     idx |-> [k \in 1..ntrain |-> n + k], f |-> f]
           /\ preds = << >>
           /\ mse = [diffs |-> << >>, n |-> 0]
           /\ Xfirst = << >>
           /\ runs = 1
           /\ names = {"hapArraysIn", "positionArrays", "X", "Y", "X_train",
                       "X_test", "Y_train", "Y_test", "clf"}
           /\ files = {SizesName, MsOutName}
           /\ madeBy = [a \in SplitNames |-> CallNo("split_b")]

NextEval ==
  \/ Predict
  \/ Score

SpecEval == InitEval /\ [][NextEval]_vars

\* C24: there are as many predictions as test labels and as test rows,
\* prediction j is the forest's value for row j of X_test, and the error is
\* taken over the differences preds[j] - Y_test[j], position by position,
\* one per test label.
C24_PositionalEvaluation ==
  /\ ("preds" \in names) =>
        /\ Len(preds) = Len(Y_test)
        /\ Len(preds) = Len(X_test)
        /\ \A j \in 1..Len(preds) : preds[j] = clf.f[X_test[j]]
  /\ (pc = "done") =>
        /\ mse.n = Len(Y_test)
        /\ Len(mse.diffs) = Len(Y_test)
        /\ \A j \in 1..Len(Y_test) : mse.diffs[j] = preds[j] - Y_test[j]

C24_Witness ==
  /\ pc = "done" /\ ~failed
  /\ Len(preds) = MaxTest
  /\ preds[1] # preds[MaxTest]
  /\ Y_test[1] # Y_test[MaxTest]
  /\ mse.diffs[1] = 0 /\ mse.diffs[2] # 0

\* C25: the four arrays are always those of one call: after the assembly
\* cell those of the first, from the next cell on those of the second; the
\* regressor is fitted on the training arrays of that second call and the
\* predictions are made for its test rows.
C25_OnePartitionCall ==
  ("X_train" \in names) =>
     /\ SplitNames \subseteq names
     /\ \A a \in SplitNames : madeBy[a] = madeBy["X_train"]
     /\ (pc = "split_b") => madeBy["X_train"] = 1
     /\ (Stage(pc) > 4) => madeBy["X_train"] = 2
     /\ X_train = Take(X, trainIdx) /\ Y_train = Take(Y, trainIdx)
     /\ X_test = Take(X, testIdx) /\ Y_test = Take(Y, testIdx)
     /\ ("clf" \in names) => (clf.X = X_train /\ clf.Y = Y_train)
     /\ ("preds" \in names) =>
          \A j \in 1..Len(preds) : preds[j] = clf.f[X_test[j]]

C25_Witness ==
  /\ pc = "done" /\ ~failed
  /\ \A a \in SplitNames : madeBy[a] = 2
  /\ Len(preds) = 1

\* C26: the sampler writes as many lines as the simulator makes
\* replicates, so a simulation that ran to its end has read every line of
\* the parameter file, each once and in order, with none left over; and
\* the simulator's number of sites is the discretization resolution.
C26_HardCodedCountsAgree ==
  /\ (pc # "sample") => Len(sizesFile) = numSims
  /\ SimulationComplete =>
        /\ tbsUsed = sizesFile
        /\ Len(sizesFile) = Len(msOut.blocks)
  /\ \A k \in 1..Len(simArgs) : simArgs[k].nsites = totalPhysLen

C26_Witness ==
  /\ SimulationComplete /\ pc = "parse" /\ ~failed
  /\ Len(tbsUsed) = NRep
  /\ tbsUsed[1] # tbsUsed[NRep]
  /\ simArgs[NRep].nsites = totalPhysLen

\* C27: only the sampler cell writes the parameter file and only the
\* simulator cell writes the simulator output, so every later cell leaves
\* both as they were; the labels loaded are the content of the parameter
\* file, and the lines the simulator read are the same lines, in order.
C27_FilesWrittenByOwnStage ==
  /\ [][(pc # "sample" => sizesFile' = sizesFile)
        /\ (pc # "simulate" => msOut' = msOut)]_vars
  /\ []("Y" \in names =>
          /\ Y = LabelsOf(sizesFile)
          /\ Len(tbsUsed) <= Len(Y)
          /\ \A k \in 1..Len(tbsUsed) : ParseFloat(tbsUsed[k]) = Y[k]
          /\ SimulationComplete => Len(tbsUsed) = Len(Y))

C27_Witness ==
  /\ "Y" \in names /\ pc = "split_a" /\ ~failed
  /\ SimulationComplete
  /\ Len(Y) = NRep
  /\ Y[1] # Y[NRep]
  /\ Y = LabelsOf(tbsUsed)

\* The genotype array and the allele counts of every haplotype array with
\* sites that the parser can return, set against the array itself.
PairingOfReplicate ==
  [h \in {hp[1] : hp \in ParsedReplicates} |->
     LET g  == to_genotypes(h)
         ac == count_alleles(g)
     IN  \A j \in 1..Len(h) :
           /\ Len(h[j]) = numSamples
           /\ Len(g[j]) = numSamples \div 2
           /\ \A k \in 1..Len(g[j]) :
                g[j][k] = <<h[j][2 * k - 1], h[j][2 * k]>>
           /\ ac[j][0] + ac[j][1] = numSamples
           /\ ac[j][1] = Cardinality({a \in 1..Len(h[j]) : h[j][a] = 1})]

\* C28: for every replicate whose row was appended, the genotype array
\* has numSamples / 2 individuals at every site, individual k (from 1) is
\* haplotypes 2k-1 and 2k (2k and 2k+1 counting from 0), the ancestral and
\* derived counts of a site sum to numSamples, and the derived count is
\* the number of 1s of the site's column of the binary matrix.
C28_PairingLosesNoSample ==
  ("X" \in names) =>
     \A k \in 1..Len(X) : PairingOfReplicate[hapArraysIn[k]]

C28_Witness ==
  /\ "X" \in names /\ ~failed /\ Len(X) = NRep
  /\ Len(hapArraysIn[1]) = 3 /\ Len(hapArraysIn[2]) = 3
  /\ DerivedCount(hapArraysIn[1], 2) = numSamples \div 2
  /\ DerivedCount(hapArraysIn[2], 2) = 1
  /\ to_genotypes(hapArraysIn[2])[2][1] = <<0, 1>>

====
